---------------------------- MODULE Spec2Model ----------------------------
(***************************************************************************)
(* Model of the two traffic generators of ec2sensor:                       *)
(*   scripts/simple_traffic_generator.py  (stream transport, sockets)      *)
(*   scripts/scapy_traffic_generator.py   (frame transport, scapy)         *)
(*                                                                         *)
(* One behaviour is one process invocation: main() builds a generator and  *)
(* runs exactly one generate_* method.  Every statement of a generate_*    *)
(* loop that can be separated from its neighbours by an asynchronous       *)
(* KeyboardInterrupt is one action; pc names the statement about to run.   *)
(* Time is counted in ticks of 1/TicksPerSec second.  The clock is read    *)
(* only by the loop test, so time that passes outside time.sleep() is      *)
(* modelled by Tick steps taken at the loop test.                          *)
(***************************************************************************)
EXTENDS Integers, Sequences, FiniteSets, TLC

(***************************************************************************)
(* Bounds of the model.                                                    *)
(***************************************************************************)
\* largest rate (packets per second) of a profile
MaxRate == 100
\* ticks of scheduling overhead the environment may add to one session
MaxJitter == 2
\* transport errors the environment may inject into one session
MaxFaults == 1
\* keyboard interrupts the environment may deliver to one session
MaxInterrupts == 2
\* the loop is not followed beyond this many counted packets
MaxPackets == 106
\* largest payload size (bytes) of a profile
MaxSize == 12
\* length of the target IP address text, e.g. "10.50.88.156"
TargetIpLen == 12

MaxKeyLen == 1
MaxSaves == 2
MaxExaTime == 3
CacheDuration == 2

TicksPerSec == MaxRate

(***************************************************************************)
(* Program constants.                                                      *)
(***************************************************************************)
StatsEvery == 100
StatsEveryDns == 50
StatsEveryIcmp == 10
FirstSynPort == 80
PortModulus == 65535
HttpDport == 80
DnsDport == 53
UdpFloodDport == 9999
HttpPostFixedLen == 64
HttpGetLen == 37
IpHdrLen == 20
TcpHdrLen == 20
UdpHdrLen == 8
IcmpHdrLen == 8
EtherHdrLen == 14
SafeKeyLen == 50
DnsQueryLen == 29
\* the ICMP seq field is 16 bits wide: packing a larger value raises
SeqFieldMax == 65535

StreamProtocols == {"tcp", "udp", "http", "mixed"}
FrameProtocols == {"http", "dns", "tcp", "icmp", "udp", "mixed"}
\* packets = [http_pkt, dns_pkt, icmp_pkt]
Rotation == <<"http", "dns", "icmp">>

Rates == {-1, 0, 1, 2, MaxRate}
Durations == {-1, 0, 1, 2}
Sizes == {1, MaxSize}

VARIABLES
    args,           \* the command line and the process: gen, protocol, rate, duration,
                    \* size, required (the required arguments are given), root
                    \* (os.geteuid() == 0), src_mac and dst_mac (--src-mac,
                    \* --dst-mac are given)
    pc,             \* the statement about to run
    packets_sent,   \* self.packets_sent
    bytes_sent,     \* self.bytes_sent
    start_time,     \* self.start_time (-1 models None)
    stop_flag,      \* self.stop_flag (stream generator only)
    now,            \* time.time(), in ticks
    end_time,       \* local end_time
    interval,       \* local interval, in ticks
    i,              \* local i of the mixed loops
    port,           \* local port of the SYN flood
    seq,            \* local seq of the ICMP loop
    udp_sock,       \* the session's UDP socket: "none", "open", "closed", or
                    \* "reclosed" when close() was called on it again
    tcp_open,       \* TCP sockets created and not closed
    sendCalls,      \* transport send calls made (send, sendp, sendto, sendall)
    lastPkt,        \* what the latest transport send call was given
    prevPort,       \* destination port of the send call before the latest
    attempts,       \* loop iterations started (send attempts)
    sleeps,         \* time.sleep(interval) calls that returned
    raised,         \* iterations that ended in the "except Exception" handler
    finalSnaps,     \* final print_stats() calls made
    periodicSnaps,  \* periodic print_stats() calls made
    lastSnap,       \* the counters the latest print_stats() reported
    intrCount,      \* keyboard interrupts delivered
    exitCause,      \* why the session ended: "none", "deadline", "interrupt", or the
                    \* uncaught error: "zero_division", "value_error", "send_error",
                    \* "build_error"
    faults,         \* transport errors injected so far
    jitter,         \* overhead ticks added so far
    base            \* packets already counted in the state the model starts from

selfVars == <<packets_sent, bytes_sent, start_time, stop_flag>>
localVars == <<end_time, interval, i, port, seq>>
sockVars == <<udp_sock, tcp_open>>
paceVars == <<sleeps, raised>>
wireVars == <<sendCalls, lastPkt, prevPort, attempts, paceVars>>
snapVars == <<finalSnaps, periodicSnaps, lastSnap>>
envVars == <<intrCount, faults, jitter, base>>
\* MCPManager.record_test_execution (mcp_manager.py)
VARIABLES
    mcpCfg,         \* the manager and its input: which connectors exist
                    \* (obsidian, memory, exa) and what the result file holds
    mcp_pc,         \* the statement of record_test_execution about to run
    results,        \* the dict the function builds and returns
    calls,          \* the connector methods invoked so far, in order
    outcomes        \* what each invoked connector did: "ok", "fail", "raise"

\* ExaConnector and its cache directory (exa_connector.py)
VARIABLES
    exaCfg,         \* config: cache_results, cache_duration
    cache,          \* the files of .cache, by file name
    exaNow,         \* datetime.now(), in ticks
    saves,          \* _save_cache calls made
    lastOp          \* the latest cache operation and what it returned

mcpVars == <<mcpCfg, mcp_pc, results, calls, outcomes>>
exaVars == <<exaCfg, cache, exaNow, saves, lastOp>>
toolVars == <<mcpVars, exaVars>>

sessionVars == <<args, pc, selfVars, now, localVars, sockVars, wireVars, snapVars,
                 envVars, exitCause>>
vars == <<sessionVars, toolVars>>

IsStream == args.gen = "stream"
IsFrame == args.gen = "frame"
Proto == args.protocol

(***************************************************************************)
(* Pure helpers.                                                           *)
(***************************************************************************)
\* number of decimal digits of str(n), n >= 0
RECURSIVE Digits(_)
Digits(n) == IF n < 10 THEN 1 ELSE 1 + Digits(n \div 10)

\* len(b"X" * payload_size)
PayloadLen(size) == IF size < 0 THEN 0 ELSE size

\* len(http_request): the POST header lines plus the payload
HttpRequestLen(size) ==
    HttpPostFixedLen + TargetIpLen + Digits(size) + PayloadLen(size)

\* interval = 1.0 / pps, in ticks (pps # 0)
Interval(pps) == TicksPerSec \div pps

\* a wrap that reduces modulo 65536 and so passes through port 0
NextPortWrapZero(p) == (p + 1) % (PortModulus + 1)

\* port = (port % 65535) + 1
NextPort(p) == (p % PortModulus) + 1

\* a seq advanced twice per send
NextSeqSkip(n) == n + 2

\* seq += 1
NextSeq(n) == n + 1

\* i += 1
NextIndexTwice(k) == k + 2

NextIndex(k) == k + 1

\* a rotation read one place ahead of the index
FrameMixedKindAhead(k) == Rotation[((k + 1) % Len(Rotation)) + 1]

\* the kind of packet the mixed loops send at rotation index k
FrameMixedKind(k) == Rotation[(k % Len(Rotation)) + 1]
StreamMixedKind(k) == IF k % 2 = 0 THEN "udp" ELSE "tcp"

\* len(pkt) of the frame generator's packets
FramePktLen(kind, size) ==
    CASE kind = "http" -> IpHdrLen + TcpHdrLen + HttpGetLen
      [] kind = "dns" -> IpHdrLen + UdpHdrLen + DnsQueryLen
      [] kind = "tcp" -> IpHdrLen + TcpHdrLen
      [] kind = "icmp" -> IpHdrLen + IcmpHdrLen
      [] kind = "udp" -> IpHdrLen + UdpHdrLen + PayloadLen(size)

\* the kind of packet the next send call of the session is given
CurrentKind ==
    IF Proto = "mixed"
    THEN (IF IsStream THEN StreamMixedKind(i) ELSE FrameMixedKind(i))
    ELSE Proto

\* self.use_layer2 = (src_mac is not None and dst_mac is not None)
UseLayer2 == args.src_mac /\ args.dst_mac

\* the packet is built on Ether(...) and sent with sendp(): the ICMP loop
\* is the only one that reads use_layer2
SendsLayer2 == IsFrame /\ Proto = "icmp" /\ UseLayer2

\* the number of bytes one counted packet adds to bytes_sent
CountedLen ==
    IF IsStream
    THEN (IF Proto = "http" THEN HttpRequestLen(args.size) ELSE PayloadLen(args.size))
    ELSE FramePktLen(CurrentKind, args.size) + (IF SendsLayer2 THEN EtherHdrLen ELSE 0)

\* K of "if self.packets_sent % K == 0: self.print_stats()"
StatsPeriod ==
    IF IsFrame /\ Proto = "dns" THEN StatsEveryDns
    ELSE IF IsFrame /\ Proto = "icmp" THEN StatsEveryIcmp
    ELSE StatsEvery

\* the session owns a UDP socket (stream udp and mixed)
OwnsUdpSocket == IsStream /\ Proto \in {"udp", "mixed"}

\* the statement that follows the loop and the interrupt handler
AfterLoopSkipsRelease == "final_stats"

AfterLoop == IF OwnsUdpSocket THEN "release" ELSE "final_stats"

\* the first statement of the loop body
BodyStart ==
    IF IsStream /\ (Proto \in {"tcp", "http"} \/ (Proto = "mixed" /\ i % 2 = 1))
    THEN "sock_create"
    ELSE "send"

\* the statements inside the try block that catches KeyboardInterrupt
RunningPcs ==
    {"loop_test", "sock_create", "connect", "send", "inc_packets", "inc_bytes",
     "close", "advance", "stats", "sleep", "exc_packets", "exc_bytes",
     "udp_err_log"}


(***************************************************************************)
(* The initial state: the process has parsed its command line.             *)
(***************************************************************************)
\* the payload size matters to the stream generator and to the UDP flood
UsesSize(g, p) == g = "stream" \/ p = "udp"

\* a protocol name that neither generator knows
OtherProtocols == {"sctp"}

\* choices=[...] of --protocol / --traffic-type
Choices(g) == IF g = "stream" THEN StreamProtocols ELSE FrameProtocols

\* a parser that checks the required arguments only
ArgsAcceptedAnyProtocol(a) == a.required

\* parse_args() accepts the command line
ArgsAccepted(a) == a.required /\ a.protocol \in Choices(a.gen)

\* the link-layer addresses are options of the frame generator only; one
\* address alone is tried with the ICMP loop, the loop that reads them
MacsModelled(a) ==
    /\ (a.gen = "stream" => ~a.src_mac /\ ~a.dst_mac)
    /\ (a.protocol # "icmp" => a.src_mac = a.dst_mac)
    /\ (a.src_mac \/ a.dst_mac) => (a.root /\ a.rate = 1 /\ a.duration \in {1, 2})

\* command lines that parse_args() accepts; the frame generator is run as
\* root or not, the stream generator as an ordinary user
RunnableProfiles ==
    {a \in [gen : {"stream", "frame"}, protocol : StreamProtocols \cup FrameProtocols,
            rate : Rates, duration : Durations, size : Sizes,
            required : {TRUE}, root : BOOLEAN,
            src_mac : BOOLEAN, dst_mac : BOOLEAN] :
        /\ ArgsAccepted(a)
        /\ a.rate * a.duration <= MaxRate
        /\ (~UsesSize(a.gen, a.protocol) => a.size = MaxSize)
        /\ (a.gen = "stream" => ~a.root)
        /\ MacsModelled(a)}

\* command lines that parse_args() refuses: a required argument is missing
\* or the protocol is not among the choices
RefusedProfiles ==
    {a \in [gen : {"stream", "frame"},
            protocol : StreamProtocols \cup FrameProtocols \cup OtherProtocols,
            rate : {1}, duration : {1}, size : {MaxSize},
            required : BOOLEAN, root : BOOLEAN,
            src_mac : {FALSE}, dst_mac : {FALSE}] : ~ArgsAccepted(a)}

Profiles == RunnableProfiles \cup RefusedProfiles

NoPacket == [kind |-> "none", dport |-> 0, seq |-> 0, l2 |-> FALSE]
NoSnap == [kind |-> "none", packets |-> 0, bytes |-> 0]

\* the MCP manager is not called
NoResults == [success |-> TRUE, obsidian |-> "None", memory |-> "None",
              exa |-> "None", error |-> FALSE]
NoOutcomes == [obsidian |-> "none", memory |-> "none", exa |-> "none"]

McpIdle ==
    /\ mcpCfg = [obsidian |-> FALSE, memory |-> FALSE, exa |-> FALSE, file |-> "missing"]
    /\ mcp_pc = "idle"
    /\ results = NoResults
    /\ calls = <<>>
    /\ outcomes = NoOutcomes

\* the characters cache keys are made of here: a letter, the two characters
\* _get_cache_path replaces, and what it replaces them with
KeyChars == {"a", "/", " ", "_"}

RECURSIVE KeysOfLen(_)
KeysOfLen(n) ==
    IF n = 0 THEN {<<>>}
    ELSE {Append(k, c) : k \in KeysOfLen(n - 1), c \in KeyChars}

\* a key one character longer than the file names keep
LongKey(c) == [j \in 1..SafeKeyLen |-> "a"] \o <<c>>

\* the cache keys tried: the empty key, short keys, two keys that differ
\* after the first SafeKeyLen characters only
Keys == UNION {KeysOfLen(n) : n \in 0..MaxKeyLen} \cup {LongKey("a"), LongKey("_")}

\* clear_cache() called with cache_key=None
NoKey == <<"None">>

\* cache_key.replace("/", "_").replace(" ", "_")[:50]
Sanitized(c) == IF c \in {"/", " "} THEN "_" ELSE c
SafeKey(k) ==
    LET r == [j \in 1..Len(k) |-> Sanitized(k[j])]
    IN  SubSeq(r, 1, IF Len(r) < SafeKeyLen THEN Len(r) ELSE SafeKeyLen)

\* the files of the cache directory the keys lead to
Files == {SafeKey(k) : k \in Keys}

\* research data: dicts whose keys are strings or integers, and a value
\* json cannot serialise
Data == [keys : {"str", "int"}, val : {1, 2}] \cup {[keys |-> "str", val |-> 0]}
Serialisable(d) == d.val # 0

\* json.load(json.dump(d)): the keys of a dict come back as strings
JsonRoundTrip(d) == [d EXCEPT !.keys = "str"]

NoData == [keys |-> "none", val |-> 0]
NoEntry == [st |-> "absent", key |-> <<>>, data |-> NoData, at |-> 0]

\* the Exa connector is not used and its cache directory is empty
NoOp == [op |-> "none", key |-> <<>>, hit |-> FALSE, data |-> NoData, from |-> <<>>]

ExaIdle ==
    /\ exaCfg = [cache_results |-> FALSE, cache_duration |-> 0]
    /\ cache = [f \in Files |-> NoEntry]
    /\ exaNow = 0
    /\ saves = 0
    /\ lastOp = NoOp

ToolsIdle == McpIdle /\ ExaIdle

\* no generator has been built yet
NotStarted ==
    /\ pc = "main"
    /\ packets_sent = 0
    /\ bytes_sent = 0
    /\ start_time = -1
    /\ stop_flag = FALSE
    /\ now = 1
    /\ end_time = 0
    /\ interval = 0
    /\ i = 0
    /\ port = 0
    /\ seq = 0
    /\ udp_sock = "none"
    /\ tcp_open = 0
    /\ sendCalls = 0
    /\ lastPkt = NoPacket
    /\ prevPort = 0
    /\ attempts = 0
    /\ sleeps = 0
    /\ raised = 0
    /\ finalSnaps = 0
    /\ periodicSnaps = 0
    /\ lastSnap = NoSnap
    /\ intrCount = 0
    /\ exitCause = "none"
    /\ faults = 0
    /\ jitter = 0
    /\ base = 0

Init ==
    /\ args \in Profiles
    /\ NotStarted
    /\ ToolsIdle

(***************************************************************************)
(* main(): parse_args() (which ends the process with status 2 on a missing *)
(* required argument or a protocol outside the choices), the root check of *)
(* the frame generator (status 1), then build the generator and call the   *)
(* generate_* of the protocol.                                             *)
(***************************************************************************)
PrivilegeRefusedNever == FALSE

\* main() of the frame generator stops unless os.geteuid() == 0
PrivilegeRefused == IsFrame /\ ~args.root

Main ==
    /\ pc = "main"
    /\ pc' = IF ~ArgsAccepted(args) THEN "usage_error"
             ELSE IF PrivilegeRefused THEN "not_root"
             ELSE "setup"
    /\ UNCHANGED <<args, toolVars, selfVars, now, localVars, sockVars, wireVars, snapVars,
                   envVars, exitCause>>

(***************************************************************************)
(* The prologue of generate_*: start_time, the session's UDP socket,       *)
(* interval = 1.0 / pps (ZeroDivisionError when pps is 0), end_time, and   *)
(* the loop's local counter.                                               *)
(***************************************************************************)
Setup ==
    /\ pc = "setup"
    /\ start_time' = now
    /\ udp_sock' = IF OwnsUdpSocket THEN "open" ELSE udp_sock
    /\ IF args.rate = 0
       THEN /\ pc' = "crashed"
            /\ exitCause' = "zero_division"
            /\ UNCHANGED localVars
       ELSE /\ pc' = "loop_test"
            /\ interval' = Interval(args.rate)
            /\ end_time' = now + args.duration * TicksPerSec
            /\ i' = 0
            /\ port' = FirstSynPort
            /\ seq' = 0
            /\ UNCHANGED exitCause
    /\ UNCHANGED <<args, toolVars, packets_sent, bytes_sent, stop_flag, now, tcp_open,
                   wireVars, snapVars, envVars>>

(***************************************************************************)
(* while time.time() < end_time [and not self.stop_flag.is_set()]          *)
(***************************************************************************)
\* a loop test that still admits the deadline itself
LoopConditionInclusive == now <= end_time /\ (IsStream => ~stop_flag)

LoopCondition == now < end_time /\ (IsStream => ~stop_flag)

LoopTest ==
    /\ pc = "loop_test"
    /\ \/ /\ LoopCondition
          /\ packets_sent - base < MaxPackets
          /\ pc' = BodyStart
          /\ attempts' = attempts + 1
          /\ UNCHANGED exitCause
       \/ /\ ~LoopCondition
          /\ pc' = AfterLoop
          /\ exitCause' = "deadline"
          /\ UNCHANGED attempts
    /\ UNCHANGED <<args, toolVars, selfVars, now, localVars, sockVars, sendCalls, lastPkt,
                   prevPort, paceVars, snapVars, envVars>>

\* time passes between two readings of the clock
Tick ==
    /\ pc = "loop_test"
    /\ jitter < MaxJitter
    /\ now < end_time
    /\ now' = now + 1
    /\ jitter' = jitter + 1
    /\ UNCHANGED <<args, toolVars, pc, selfVars, localVars, sockVars, wireVars, snapVars,
                   intrCount, faults, base, exitCause>>

(***************************************************************************)
(* sock = socket.socket(AF_INET, SOCK_STREAM); settimeout; setblocking     *)
(* An OSError is caught by the loop body's "except Exception".             *)
(***************************************************************************)
SockCreate ==
    /\ pc = "sock_create"
    /\ \/ /\ tcp_open' = tcp_open + 1
          /\ pc' = "connect"
          /\ UNCHANGED faults
       \/ /\ faults < MaxFaults
          /\ faults' = faults + 1
          /\ pc' = "exc_packets"
          /\ UNCHANGED tcp_open
    /\ UNCHANGED <<args, toolVars, selfVars, now, localVars, udp_sock, wireVars, snapVars,
                   intrCount, jitter, base, exitCause>>

(***************************************************************************)
(* sock.connect(...): BlockingIOError is passed over by all three loops;   *)
(* any other error is passed over by the http and mixed loops (bare        *)
(* except) and reaches "except Exception" in the tcp loop.                 *)
(***************************************************************************)
Connect ==
    /\ pc = "connect"
    /\ \/ /\ pc' = "send"
          /\ UNCHANGED faults
       \/ /\ faults < MaxFaults
          /\ faults' = faults + 1
          /\ pc' = IF Proto = "tcp" THEN "exc_packets" ELSE "send"
    /\ UNCHANGED <<args, toolVars, selfVars, now, localVars, sockVars, wireVars, snapVars,
                   intrCount, jitter, base, exitCause>>

(***************************************************************************)
(* The transport send call: sock.sendall, sock.sendto, send, sendp.        *)
(***************************************************************************)
\* what the call is given
PacketToSend ==
    [kind |-> CurrentKind,
     dport |-> IF IsFrame
               THEN (CASE CurrentKind = "http" -> HttpDport
                       [] CurrentKind = "dns" -> DnsDport
                       [] CurrentKind = "tcp" -> port
                       [] CurrentKind = "udp" -> UdpFloodDport
                       [] OTHER -> 0)
               ELSE 0,
     seq |-> IF IsFrame /\ Proto = "icmp" THEN seq ELSE 0,
     l2 |-> SendsLayer2]

\* the statement after a send call that returned or whose error was passed over
AfterSend == IF IsStream /\ Proto = "mixed" /\ i % 2 = 1 THEN "close" ELSE "inc_packets"

\* where an error of the send call leads
SendErrorPcUdpCounted ==
    IF IsFrame THEN "crashed"
    ELSE IF Proto = "udp" THEN "inc_packets"
    ELSE IF Proto = "mixed" /\ i % 2 = 0 THEN "exc_packets"
    ELSE AfterSend

SendErrorPcUdpFatal ==
    IF IsFrame THEN "crashed"
    ELSE IF Proto = "udp" THEN "crashed"
    ELSE IF Proto = "mixed" /\ i % 2 = 0 THEN "exc_packets"
    ELSE AfterSend

SendErrorPc ==
    IF IsFrame THEN "crashed"
    ELSE IF Proto = "udp" THEN "udp_err_log"
    ELSE IF Proto = "mixed" /\ i % 2 = 0 THEN "exc_packets"
    ELSE AfterSend

\* the packet cannot be built: its seq does not fit the field
Unbuildable == IsFrame /\ Proto = "icmp" /\ seq > SeqFieldMax

Send ==
    /\ pc = "send"
    /\ \/ /\ ~Unbuildable
          /\ sendCalls' = sendCalls + 1
          /\ lastPkt' = PacketToSend
          /\ prevPort' = lastPkt.dport
          /\ UNCHANGED <<attempts, paceVars>>
          /\ \/ /\ pc' = AfterSend
                /\ UNCHANGED <<faults, exitCause>>
             \/ /\ faults < MaxFaults
                /\ faults' = faults + 1
                /\ pc' = SendErrorPc
                /\ exitCause' = IF IsFrame THEN "send_error" ELSE exitCause
       \/ /\ Unbuildable
          /\ pc' = "crashed"
          /\ exitCause' = "build_error"
          /\ UNCHANGED <<wireVars, faults>>
    /\ UNCHANGED <<args, toolVars, selfVars, now, localVars, sockVars, snapVars,
                   intrCount, jitter, base>>

(***************************************************************************)
(* self.packets_sent += 1 ; self.bytes_sent += len(...)                    *)
(***************************************************************************)
AfterIncBytes ==
    IF IsStream
    THEN (CASE Proto = "udp" -> "stats"
            [] Proto = "mixed" -> "advance"
            [] OTHER -> "close")
    ELSE (IF Proto \in {"tcp", "icmp", "mixed"} THEN "advance" ELSE "sleep")

IncPackets ==
    /\ pc = "inc_packets"
    /\ packets_sent' = packets_sent + 1
    /\ pc' = "inc_bytes"
    /\ UNCHANGED <<args, toolVars, bytes_sent, start_time, stop_flag, now, localVars,
                   sockVars, wireVars, snapVars, envVars, exitCause>>

IncBytes ==
    /\ pc = "inc_bytes"
    /\ bytes_sent' = bytes_sent + CountedLen
    /\ pc' = AfterIncBytes
    /\ UNCHANGED <<args, toolVars, packets_sent, start_time, stop_flag, now, localVars,
                   sockVars, wireVars, snapVars, envVars, exitCause>>

\* sock.close()
Close ==
    /\ pc = "close"
    /\ tcp_open' = tcp_open - 1
    /\ pc' = IF Proto = "mixed" THEN "inc_packets" ELSE "stats"
    /\ UNCHANGED <<args, toolVars, selfVars, now, localVars, udp_sock, wireVars, snapVars,
                   envVars, exitCause>>

(***************************************************************************)
(* port = (port % 65535) + 1 ; seq += 1 ; i += 1                           *)
(***************************************************************************)
Advance ==
    /\ pc = "advance"
    /\ port' = IF IsFrame /\ Proto = "tcp" THEN NextPort(port) ELSE port
    /\ seq' = IF IsFrame /\ Proto = "icmp" THEN NextSeq(seq) ELSE seq
    /\ i' = IF Proto = "mixed" THEN NextIndex(i) ELSE i
    /\ pc' = IF IsStream THEN "stats" ELSE "sleep"
    /\ UNCHANGED <<args, toolVars, selfVars, now, end_time, interval, sockVars, wireVars,
                   snapVars, envVars, exitCause>>

(***************************************************************************)
(* if self.packets_sent % K == 0: self.print_stats()                       *)
(***************************************************************************)
Snapshot(kind) == [kind |-> kind, packets |-> packets_sent, bytes |-> bytes_sent]

\* print_stats() prints only "if self.start_time:" (neither None nor 0)
StatsPrinted == start_time > 0

PeriodicStats ==
    /\ pc = "stats"
    /\ \/ /\ packets_sent % StatsPeriod = 0
          /\ StatsPrinted
          /\ periodicSnaps' = periodicSnaps + 1
          /\ lastSnap' = Snapshot("periodic")
       \/ /\ packets_sent % StatsPeriod # 0 \/ ~StatsPrinted
          /\ UNCHANGED <<periodicSnaps, lastSnap>>
    /\ pc' = IF IsStream THEN "sleep" ELSE "loop_test"
    /\ UNCHANGED <<args, toolVars, selfVars, now, localVars, sockVars, wireVars, finalSnaps,
                   envVars, exitCause>>

(***************************************************************************)
(* time.sleep(interval): ValueError when the interval is negative, which   *)
(* "except Exception" catches in the stream tcp, http and mixed loops and  *)
(* nothing catches in the other loops.                                     *)
(***************************************************************************)
Sleep ==
    /\ pc = "sleep"
    /\ IF interval < 0
       THEN /\ IF IsStream /\ Proto # "udp"
               THEN pc' = "exc_packets" /\ UNCHANGED exitCause
               ELSE pc' = "crashed" /\ exitCause' = "value_error"
            /\ UNCHANGED <<now, sleeps>>
       ELSE /\ now' = now + interval
            /\ sleeps' = sleeps + 1
            /\ pc' = IF IsStream THEN "loop_test" ELSE "stats"
            /\ UNCHANGED exitCause
    /\ UNCHANGED <<args, toolVars, selfVars, localVars, sockVars, sendCalls, lastPkt,
                   prevPort, attempts, raised, snapVars, envVars>>

(***************************************************************************)
(* except Exception: count the packet anyway (stream tcp, http, mixed)     *)
(***************************************************************************)
\* a handler that takes the failed attempt back out of the count
ExcCountPacketsUndo ==
    /\ pc = "exc_packets"
    /\ packets_sent' = packets_sent - 1
    /\ raised' = raised + 1
    /\ pc' = "exc_bytes"
    /\ UNCHANGED <<args, toolVars, bytes_sent, start_time, stop_flag, now, localVars,
                   sockVars, sendCalls, lastPkt, prevPort, attempts, sleeps,
                   snapVars, envVars, exitCause>>

ExcCountPackets ==
    /\ pc = "exc_packets"
    /\ packets_sent' = packets_sent + 1
    /\ raised' = raised + 1
    /\ pc' = "exc_bytes"
    /\ UNCHANGED <<args, toolVars, bytes_sent, start_time, stop_flag, now, localVars,
                   sockVars, sendCalls, lastPkt, prevPort, attempts, sleeps,
                   snapVars, envVars, exitCause>>

ExcCountBytes ==
    /\ pc = "exc_bytes"
    /\ bytes_sent' = bytes_sent + CountedLen
    /\ pc' = "loop_test"
    /\ UNCHANGED <<args, toolVars, packets_sent, start_time, stop_flag, now, localVars,
                   sockVars, wireVars, snapVars, envVars, exitCause>>

\* except OSError as e: self.log(...)   (stream udp)
LogUdpError ==
    /\ pc = "udp_err_log"
    /\ pc' = "loop_test"
    /\ UNCHANGED <<args, toolVars, selfVars, now, localVars, sockVars, wireVars, snapVars,
                   envVars, exitCause>>

(***************************************************************************)
(* A KeyboardInterrupt raised at the statement about to run.  The          *)
(* environment interrupts a session while it is Running, that is at a      *)
(* statement inside the try block of generate_*.  Inside a                 *)
(* "try: ... except: pass" of the stream generator it is passed over and   *)
(* the loop goes on; anywhere else in the loop it reaches the handler.     *)
(***************************************************************************)
InBareExcept ==
    /\ IsStream
    /\ \/ Proto = "tcp" /\ pc = "send"
       \/ Proto = "http" /\ pc \in {"connect", "send"}
       \/ Proto = "mixed" /\ i % 2 = 1 /\ pc \in {"connect", "send"}

Interrupt ==
    /\ pc \in RunningPcs
    /\ intrCount < MaxInterrupts
    /\ intrCount' = intrCount + 1
    /\ \/ /\ InBareExcept
          /\ pc' = IF pc = "connect" THEN "send" ELSE AfterSend
          /\ UNCHANGED exitCause
       \/ /\ ~InBareExcept
          /\ pc' = "interrupted"
          /\ exitCause' = "interrupt"
    /\ UNCHANGED <<args, toolVars, selfVars, now, localVars, sockVars, wireVars, snapVars,
                   faults, jitter, base>>

\* a handler that returns from generate_* instead of falling through
HandleInterruptReturns ==
    /\ pc = "interrupted"
    /\ stop_flag' = IF IsStream THEN TRUE ELSE stop_flag
    /\ pc' = "returned"
    /\ UNCHANGED <<args, toolVars, packets_sent, bytes_sent, start_time, now, localVars,
                   sockVars, wireVars, snapVars, envVars, exitCause>>

\* except KeyboardInterrupt: self.log("Interrupted by user") [; self.stop_flag.set()]
HandleInterrupt ==
    /\ pc = "interrupted"
    /\ stop_flag' = IF IsStream THEN TRUE ELSE stop_flag
    /\ pc' = AfterLoop
    /\ UNCHANGED <<args, toolVars, packets_sent, bytes_sent, start_time, now, localVars,
                   sockVars, wireVars, snapVars, envVars, exitCause>>

\* sock.close() / udp_sock.close() after the loop
ReleaseUdp ==
    /\ pc = "release"
    /\ udp_sock' = IF udp_sock = "open" THEN "closed" ELSE "reclosed"
    /\ pc' = "final_stats"
    /\ UNCHANGED <<args, toolVars, selfVars, now, localVars, tcp_open, wireVars, snapVars,
                   envVars, exitCause>>

\* the self.print_stats() that ends generate_*
FinalStats ==
    /\ pc = "final_stats"
    /\ IF StatsPrinted
       THEN finalSnaps' = finalSnaps + 1 /\ lastSnap' = Snapshot("final")
       ELSE UNCHANGED <<finalSnaps, lastSnap>>
    /\ pc' = "returned"
    /\ UNCHANGED <<args, toolVars, selfVars, now, localVars, sockVars, wireVars,
                   periodicSnaps, envVars, exitCause>>

\* a main() that calls generate_* of the same instance again
ExitRunsAgain ==
    /\ pc = "returned"
    /\ pc' = "setup"
    /\ UNCHANGED <<args, toolVars, selfVars, now, localVars, sockVars, wireVars, snapVars,
                   envVars, exitCause>>

\* gen.log("Traffic generation complete"), and the process exits 0
Exit ==
    /\ pc = "returned"
    /\ pc' = "done"
    /\ UNCHANGED <<args, toolVars, selfVars, now, localVars, sockVars, wireVars, snapVars,
                   envVars, exitCause>>

\* the status the process ends with, -1 while it runs: 2 from parse_args(),
\* 1 from sys.exit(1) and from an uncaught exception, 0 at the end of main()
ExitStatus ==
    CASE pc = "usage_error" -> 2
      [] pc \in {"not_root", "crashed"} -> 1
      [] pc = "done" -> 0
      [] OTHER -> -1

Next ==
    \/ Main
    \/ Setup
    \/ LoopTest
    \/ Tick
    \/ SockCreate
    \/ Connect
    \/ Send
    \/ IncPackets
    \/ IncBytes
    \/ Close
    \/ Advance
    \/ PeriodicStats
    \/ Sleep
    \/ ExcCountPackets
    \/ ExcCountBytes
    \/ LogUdpError
    \/ Interrupt
    \/ HandleInterrupt
    \/ ReleaseUdp
    \/ FinalStats
    \/ Exit

Spec == Init /\ [][Next]_vars

\* the steps of the process itself: everything but the delivery of an
\* interrupt, which the user may never send
ProcessStep ==
    \/ Main \/ Setup \/ LoopTest \/ Tick \/ SockCreate \/ Connect \/ Send
    \/ IncPackets \/ IncBytes \/ Close \/ Advance \/ PeriodicStats \/ Sleep
    \/ ExcCountPackets \/ ExcCountBytes \/ LogUdpError \/ HandleInterrupt
    \/ ReleaseUdp \/ FinalStats \/ Exit

\* the interpreter keeps executing the process: a statement that can run
\* does run
SpecLive == Init /\ [][Next]_vars /\ WF_vars(ProcessStep)

(***************************************************************************)
(* Long sessions.  The SYN flood's port wraps after 65455 sends and the    *)
(* ICMP seq leaves its field after 65536 sends.  InitLate is the state of  *)
(* such a session at its loop test shortly before that point, reached      *)
(* from Init by LateSent sends at one send per tick; SpecLate follows      *)
(* fresh and late sessions alike.                                          *)
(***************************************************************************)
LateSent(p) ==
    IF p = "tcp" THEN PortModulus - FirstSynPort - 2 ELSE SeqFieldMax - 1

LateProfiles ==
    {[gen |-> "frame", protocol |-> p, rate |-> MaxRate,
      duration |-> (LateSent(p) \div MaxRate) + 1, size |-> MaxSize,
      required |-> TRUE, root |-> TRUE, src_mac |-> FALSE, dst_mac |-> FALSE] :
        p \in {"tcp", "icmp"}}

InitLate ==
    /\ args \in LateProfiles
    /\ pc = "loop_test"
    /\ packets_sent = LateSent(Proto)
    /\ bytes_sent = LateSent(Proto) * FramePktLen(Proto, args.size)
    /\ start_time = 1
    /\ stop_flag = FALSE
    /\ interval = Interval(args.rate)
    /\ now = start_time + LateSent(Proto) * interval
    /\ end_time = start_time + args.duration * TicksPerSec
    /\ i = 0
    /\ port = FirstSynPort + (IF Proto = "tcp" THEN LateSent(Proto) ELSE 0)
    /\ seq = IF Proto = "icmp" THEN LateSent(Proto) ELSE 0
    /\ udp_sock = "none"
    /\ tcp_open = 0
    /\ sendCalls = LateSent(Proto)
    /\ lastPkt = [kind |-> Proto,
                  dport |-> IF Proto = "tcp" THEN port - 1 ELSE 0,
                  seq |-> IF Proto = "icmp" THEN seq - 1 ELSE 0,
                  l2 |-> FALSE]
    /\ prevPort = IF Proto = "tcp" THEN port - 2 ELSE 0
    /\ attempts = LateSent(Proto)
    /\ sleeps = LateSent(Proto)
    /\ raised = 0
    /\ finalSnaps = 0
    /\ periodicSnaps = packets_sent \div StatsPeriod
    /\ lastSnap = [kind |-> "periodic",
                   packets |-> periodicSnaps * StatsPeriod,
                   bytes |-> periodicSnaps * StatsPeriod * FramePktLen(Proto, args.size)]
    /\ intrCount = 0
    /\ exitCause = "none"
    /\ faults = 0
    /\ jitter = 0
    /\ base = packets_sent
    /\ ToolsIdle

SpecLate == (Init \/ InitLate) /\ [][Next]_vars


(***************************************************************************)
(* The claims.                                                             *)
(***************************************************************************)
\* the loop was left at its deadline or by an interrupt that reached the handler
LoopLeft == exitCause \in {"deadline", "interrupt"}
\* generate_* has returned to main()
Returned == pc \in {"returned", "done"}
\* a profile the spec calls valid: positive rate and duration
ValidProfile == args.rate > 0 /\ args.duration > 0

\* C1: when the send loop is left, at the deadline or by an interrupt, the
\* final statistics snapshot is emitted exactly once: it is never emitted
\* before the loop is left, it is pending until generate_* returns, and it has
\* been emitted once, not twice, when generate_* has returned.
C1_FinalSnapshotOnce ==
    /\ finalSnaps \in {0, 1}
    /\ finalSnaps = 1 => LoopLeft /\ Returned
    /\ LoopLeft =>
          IF Returned
          THEN finalSnaps = 1 /\ lastSnap.kind = "final"
          ELSE finalSnaps = 0 /\ pc \in {"interrupted", "release", "final_stats"}

C1_Witness ==
    /\ pc = "done"
    /\ exitCause = "interrupt"
    /\ packets_sent > 0
    /\ finalSnaps = 1

\* C2 (as claimed): a session cancelled by an interrupt after K transport
\* sends reports packets_sent = K in its final snapshot, wherever in the
\* iteration the interrupt arrived, and no error leaves generate_*.
C2_CancelledReportsSends ==
    (ValidProfile /\ exitCause = "interrupt" /\ faults = 0 /\ Returned) =>
        /\ lastSnap.kind = "final"
        /\ lastSnap.packets = sendCalls

\* C3 (as claimed): an interrupt delivered while the session is Running
\* moves it to Cancelled: once an interrupt was delivered the session is at
\* no statement of the loop any more.
C3_InterruptCancels == (ValidProfile /\ intrCount > 0) => pc \notin RunningPcs

\* C4: no step of a session lowers packets_sent or bytes_sent.
C4_CountersMonotonic ==
    [][packets_sent' >= packets_sent /\ bytes_sent' >= bytes_sent]_vars

C4_Witness ==
    /\ pc = "done"
    /\ faults > 0
    /\ periodicSnaps > 0
    /\ IsStream /\ Proto = "tcp"
    /\ packets_sent > sendCalls

\* C5 (as claimed): every snapshot of a stream udp, http or tcp session
\* reports bytes_sent = packets_sent * payload length.
C5_SnapshotBytesMatchPackets ==
    (/\ ValidProfile /\ faults = 0
     /\ IsStream /\ Proto \in {"udp", "http", "tcp"}
     /\ lastSnap.kind # "none") =>
        lastSnap.bytes = lastSnap.packets * PayloadLen(args.size)

\* C6: in a SYN flood the first packet goes to port 80, each later packet to
\* the port after the previous packet's, the port after 65535 being 1; no
\* packet goes to port 0 or to a port above 65535.
C6_SynPortSequence ==
    (IsFrame /\ Proto = "tcp" /\ sendCalls >= 1) =>
        /\ lastPkt.dport \in 1..65535
        /\ sendCalls = 1 => lastPkt.dport = 80
        /\ sendCalls >= 2 =>
              lastPkt.dport = IF prevPort = 65535 THEN 1 ELSE prevPort + 1

C6_Witness ==
    /\ IsFrame /\ Proto = "tcp"
    /\ prevPort = 65535
    /\ lastPkt.dport = 1
    /\ pc = "loop_test"

\* C7: in an ICMP session the Nth packet sent carries seq N-1, and at every
\* loop boundary the next seq equals the number of packets sent.
C7_IcmpSeqIsSendIndex ==
    (IsFrame /\ Proto = "icmp") =>
        /\ sendCalls >= 1 => lastPkt.seq = sendCalls - 1
        /\ pc = "loop_test" => seq = packets_sent /\ seq = sendCalls

C7_Witness ==
    /\ IsFrame /\ Proto = "icmp"
    /\ pc = "loop_test"
    /\ sendCalls = 3
    /\ lastPkt.seq = 2

\* C8: in the frame generator's mixed mode the Nth packet sent is of
\* protocol rotation[(N-1) mod 3], rotation = [http, dns, icmp].
C8_FrameMixedRotation ==
    (IsFrame /\ Proto = "mixed" /\ sendCalls >= 1) =>
        lastPkt.kind = <<"http", "dns", "icmp">>[((sendCalls - 1) % 3) + 1]

C8_Witness ==
    /\ IsFrame /\ Proto = "mixed"
    /\ sendCalls = 5
    /\ lastPkt.kind = "dns"

\* C9: a session of duration 0 makes no transport send call and counts
\* nothing; with a rate that lets the prologue finish, generate_* returns
\* after a final snapshot that reports 0 packets and 0 bytes.
C9_ZeroDurationSendsNothing ==
    args.duration = 0 =>
        /\ sendCalls = 0 /\ packets_sent = 0 /\ bytes_sent = 0
        /\ tcp_open = 0
        /\ pc \notin (RunningPcs \ {"loop_test"})
        /\ args.rate # 0 => pc # "crashed"
        /\ Returned => lastSnap = [kind |-> "final", packets |-> 0, bytes |-> 0]

C9_Witness ==
    /\ args.duration = 0
    /\ args.rate > 0
    /\ pc = "done"
    /\ exitCause = "deadline"
    /\ lastSnap.kind = "final"

\* C10 (as claimed): a rate or duration that is zero or negative is rejected
\* before the session starts: no socket is opened, nothing is sent, no
\* counter changes and the process does not end as a completed run.
C10_BadProfileRejected ==
    (args.rate <= 0 \/ args.duration <= 0) =>
        /\ udp_sock = "none" /\ tcp_open = 0
        /\ sendCalls = 0
        /\ packets_sent = 0 /\ bytes_sent = 0
        /\ pc # "done"

\* the session is Completed or Cancelled and generate_* is past the release
\* of its socket
Terminal == LoopLeft /\ pc \in {"final_stats", "returned", "done"}

\* C11 (as claimed): a failed send of the frame generator does not end the
\* session: the loop goes on and the process does not end on the error.
C11_FrameSendFailureAbsorbed ==
    (ValidProfile /\ IsFrame /\ faults > 0 /\ intrCount = 0) => pc # "crashed"

\* C12 (as claimed): at every loop boundary of a stream tcp, http or mixed
\* session packets_sent equals the number of iterations started: every
\* attempt is counted once, none twice, whether connect and write succeed
\* or fail.
C12_AttemptCountedOnce ==
    (IsStream /\ Proto \in {"tcp", "http", "mixed"} /\ pc = "loop_test") =>
        packets_sent = attempts

\* C13: a send error of the stream udp session leads to the log statement
\* of the handler and back to the loop, with the session's socket still
\* open; while the session is at a statement of the loop the socket is the
\* one opened at its start, never closed or reopened; the statements after
\* the loop are reached at the deadline or by an interrupt only, no session
\* ends on a send error, and a session with a valid profile ends at the
\* deadline or by an interrupt only.
C13_UdpSendErrorAbsorbed ==
    /\ [][(IsStream /\ Proto = "udp" /\ pc = "send" /\ faults' > faults) =>
            (pc' = "udp_err_log" /\ udp_sock' = "open" /\ exitCause' = "none")]_vars
    /\ [][(IsStream /\ Proto = "udp" /\ pc = "udp_err_log") =>
            (pc' \in {"loop_test", "interrupted"} /\ udp_sock' = "open")]_vars
    /\ []((IsStream /\ Proto = "udp" /\ pc \in RunningPcs) => udp_sock = "open")
    /\ []((IsStream /\ Proto = "udp") =>
            /\ exitCause # "send_error"
            /\ pc \in {"release", "final_stats", "returned", "done"} => LoopLeft
            /\ ValidProfile => exitCause \in {"none", "deadline", "interrupt"})

C13_Witness ==
    /\ IsStream /\ Proto = "udp"
    /\ faults > 0
    /\ sendCalls > packets_sent
    /\ packets_sent > 0
    /\ exitCause = "deadline"
    /\ pc = "done"

\* C14: a stream udp or mixed session that is Completed or Cancelled has
\* closed its UDP socket, and close() is never called on it a second time.
C14_UdpSocketClosedOnce ==
    /\ udp_sock # "reclosed"
    /\ (OwnsUdpSocket /\ Terminal) => udp_sock = "closed"
    /\ udp_sock = "closed" => (OwnsUdpSocket /\ Terminal)

C14_Witness ==
    /\ OwnsUdpSocket /\ Proto = "mixed"
    /\ exitCause = "interrupt"
    /\ pc = "done"
    /\ sendCalls > 0
    /\ udp_sock = "closed"

\* C15 (as claimed): at every loop boundary of a stream session no TCP
\* socket opened by the session is still open, also after a failed connect.
C15_NoTcpSocketAtLoopBoundary ==
    (ValidProfile /\ IsStream /\ pc = "loop_test") => tcp_open = 0

\* C17 (as claimed): a session with a valid profile that ran to its
\* deadline reports at most rate * duration packets, the tolerance being
\* for sleep jitter, which only lowers the count, also when sends failed.
C17_CompletedCountBounded ==
    (ValidProfile /\ exitCause = "deadline" /\ Returned) =>
        packets_sent <= args.rate * args.duration

\* nothing of a session has happened: no generator has started, no socket
\* is open, nothing was sent, no counter has changed
NothingRun ==
    /\ start_time = -1 /\ attempts = 0
    /\ udp_sock = "none" /\ tcp_open = 0
    /\ sendCalls = 0
    /\ packets_sent = 0 /\ bytes_sent = 0
    /\ finalSnaps = 0 /\ periodicSnaps = 0

C19_BadArgumentsExitEarly ==
    (~args.required \/ args.protocol \notin Choices(args.gen)) =>
        /\ pc \in {"main", "usage_error"}
        /\ NothingRun
        /\ pc = "usage_error" => ExitStatus = 2

C19_Witness ==
    /\ args.required
    /\ args.protocol \notin Choices(args.gen)
    /\ pc = "usage_error"

\* C20: the frame generator started with accepted arguments but not as
\* root ends before a generator is built, with a status that is not 0 and
\* with nothing sent; the stream generator is never ended for the lack of
\* privilege.
C20_FrameNeedsRoot ==
    /\ (args.required /\ args.protocol \in Choices(args.gen)
          /\ IsFrame /\ ~args.root) =>
            /\ pc \in {"main", "not_root"}
            /\ NothingRun
            /\ pc = "not_root" => ExitStatus > 0
    /\ pc = "not_root" => (IsFrame /\ ~args.root)

C20_Witness ==
    /\ IsFrame /\ ~args.root
    /\ args.required /\ args.protocol \in Choices(args.gen)
    /\ pc = "not_root"

\* C16 (as claimed): every started session with a valid profile eventually
\* is Completed or Cancelled, with generate_* returned.
C16_SessionReachesTerminal ==
    (ValidProfile /\ pc = "loop_test") ~> (LoopLeft /\ Returned)

\* C21 (as claimed): a packet of the frame generator is sent with explicit
\* link-layer addressing exactly when both --src-mac and --dst-mac were
\* given.
C21_Layer2IffBothMacs ==
    (IsFrame /\ sendCalls > 0) => (lastPkt.l2 <=> (args.src_mac /\ args.dst_mac))

\* C22 (as claimed): counted packets and pacing sleeps alternate, a sleep
\* after each counted packet and before the next one, also on iterations
\* whose connect or write failed: the sleeps that returned are as many as
\* the packets counted, or one less while the latest packet awaits its sleep.
C22_OneSleepPerCountedSend ==
    (ValidProfile /\ intrCount = 0) => sleeps \in {packets_sent - 1, packets_sent}

\* C23 (as claimed): at every loop boundary one periodic snapshot has been
\* emitted for each positive multiple of K that packets_sent has reached,
\* and the latest periodic snapshot reports a multiple of K.
C23_SnapshotEveryK ==
    (ValidProfile /\ pc = "loop_test") =>
        /\ periodicSnaps = packets_sent \div StatsPeriod
        /\ lastSnap.kind = "periodic" => lastSnap.packets % StatsPeriod = 0

C25_FailedUdpSendNotCounted ==
    /\ [][(IsStream /\ Proto = "udp" /\ pc = "send" /\ faults' > faults) =>
            (/\ packets_sent' = packets_sent /\ bytes_sent' = bytes_sent
             /\ pc' = "udp_err_log")]_vars
    /\ [][(IsStream /\ Proto = "udp" /\ pc = "udp_err_log") =>
            (/\ packets_sent' = packets_sent /\ bytes_sent' = bytes_sent
             /\ sleeps' = sleeps /\ now' = now
             /\ pc' \in {"loop_test", "interrupted"})]_vars
    /\ []((/\ IsStream /\ Proto = "udp"
           /\ pc = "loop_test" \/ (exitCause = "deadline" /\ Returned)) =>
            /\ packets_sent = sendCalls - faults
            /\ bytes_sent = packets_sent * PayloadLen(args.size)
            /\ sleeps = packets_sent)

C25_Witness ==
    /\ IsStream /\ Proto = "udp"
    /\ faults = 1
    /\ sendCalls = 2
    /\ packets_sent = 1
    /\ sleeps = 1
    /\ lastSnap = [kind |-> "final", packets |-> 1, bytes |-> PayloadLen(args.size)]
    /\ pc = "done"

(***************************************************************************)
(* MCPManager.record_test_execution (mcp_manager.py): one call, statement  *)
(* by statement.  A connector exists when its integration is enabled.  The *)
(* result file is missing, is not JSON, holds a JSON object, or holds JSON  *)
(* of another type (a list, a string, a number, null).                     *)
(***************************************************************************)
FileKinds == {"missing", "invalid", "object", "non_object"}
ConnectorOutcomes == {"ok", "fail", "raise"}

\* json.load(f) of the result file returns
FileLoads == mcpCfg.file \in {"object", "non_object"}

\* the entry of results for a connector that did o
EntryOf(o) == IF o = "raise" THEN "error" ELSE o

InitMcp ==
    /\ args \in {a \in RefusedProfiles : a.gen = "stream" /\ a.protocol = "sctp"
                                          /\ a.required /\ ~a.root}
    /\ NotStarted
    /\ ExaIdle
    /\ mcpCfg \in [obsidian : BOOLEAN, memory : BOOLEAN, exa : BOOLEAN, file : FileKinds]
    /\ mcp_pc = "idle"
    /\ results = NoResults
    /\ calls = <<>>
    /\ outcomes = NoOutcomes

\* results = {"success": True, ..., "obsidian": None, "memory": None, "exa": None}
McpStart ==
    /\ mcp_pc = "idle"
    /\ results' = NoResults
    /\ mcp_pc' = "load"
    /\ UNCHANGED <<sessionVars, exaVars, mcpCfg, calls, outcomes>>

\* a load that goes on to the connectors whatever became of the file
McpLoadGoesOn ==
    /\ mcp_pc = "load"
    /\ IF FileLoads
       THEN /\ mcp_pc' = "obsidian"
            /\ UNCHANGED results
       ELSE /\ results' = [results EXCEPT !.success = FALSE, !.error = TRUE]
            /\ mcp_pc' = "obsidian"
    /\ UNCHANGED <<sessionVars, exaVars, mcpCfg, calls, outcomes>>

\* try: result_data = json.load(f)  except Exception: ... return results
McpLoad ==
    /\ mcp_pc = "load"
    /\ IF FileLoads
       THEN /\ mcp_pc' = "obsidian"
            /\ UNCHANGED results
       ELSE /\ results' = [results EXCEPT !.success = FALSE, !.error = TRUE]
            /\ mcp_pc' = "returned"
    /\ UNCHANGED <<sessionVars, exaVars, mcpCfg, calls, outcomes>>

\* if self.obsidian: try: self.obsidian.sync_test_execution(...)
McpObsidian ==
    /\ mcp_pc = "obsidian"
    /\ IF mcpCfg.obsidian
       THEN \E o \in ConnectorOutcomes :
                /\ calls' = Append(calls, "obsidian")
                /\ outcomes' = [outcomes EXCEPT !.obsidian = o]
                /\ results' = [results EXCEPT !.obsidian = EntryOf(o),
                                              !.success = @ /\ o = "ok"]
       ELSE UNCHANGED <<calls, outcomes, results>>
    /\ mcp_pc' = "memory"
    /\ UNCHANGED <<sessionVars, exaVars, mcpCfg>>

\* if self.memory: try: self.memory.record_test_execution(...)
McpMemory ==
    /\ mcp_pc = "memory"
    /\ IF mcpCfg.memory
       THEN \E o \in ConnectorOutcomes :
                /\ calls' = Append(calls, "memory")
                /\ outcomes' = [outcomes EXCEPT !.memory = o]
                /\ results' = [results EXCEPT !.memory = EntryOf(o),
                                              !.success = @ /\ o = "ok"]
       ELSE UNCHANGED <<calls, outcomes, results>>
    /\ mcp_pc' = "exa"
    /\ UNCHANGED <<sessionVars, exaVars, mcpCfg>>

\* an Exa step that marks the whole recording failed like the other two
McpExaCounts ==
    /\ mcp_pc = "exa"
    /\ IF mcpCfg.exa
       THEN IF mcpCfg.file = "non_object"
            THEN /\ results' = [results EXCEPT !.exa = "error", !.success = FALSE]
                 /\ UNCHANGED <<calls, outcomes>>
            ELSE \E o \in ConnectorOutcomes :
                    /\ calls' = Append(calls, "exa")
                    /\ outcomes' = [outcomes EXCEPT !.exa = o]
                    /\ results' = [results EXCEPT !.exa = EntryOf(o),
                                                  !.success = @ /\ o = "ok"]
       ELSE UNCHANGED <<calls, outcomes, results>>
    /\ mcp_pc' = "finish"
    /\ UNCHANGED <<sessionVars, exaVars, mcpCfg>>

\* if self.exa: try: self.exa.research_jira_issue(jira_ticket=...,
\*     issue_description=result_data.get("test_title", ""))
\* The argument is evaluated inside the try block before the call:
\* result_data.get raises AttributeError when the file holds no object.
McpExa ==
    /\ mcp_pc = "exa"
    /\ IF mcpCfg.exa
       THEN IF mcpCfg.file = "non_object"
            THEN /\ results' = [results EXCEPT !.exa = "error"]
                 /\ UNCHANGED <<calls, outcomes>>
            ELSE \E o \in ConnectorOutcomes :
                    /\ calls' = Append(calls, "exa")
                    /\ outcomes' = [outcomes EXCEPT !.exa = o]
                    /\ results' = [results EXCEPT !.exa = EntryOf(o)]
       ELSE UNCHANGED <<calls, outcomes, results>>
    /\ mcp_pc' = "finish"
    /\ UNCHANGED <<sessionVars, exaVars, mcpCfg>>

\* the closing print and "return results"
McpFinish ==
    /\ mcp_pc = "finish"
    /\ mcp_pc' = "returned"
    /\ UNCHANGED <<sessionVars, exaVars, mcpCfg, results, calls, outcomes>>

NextMcp ==
    \/ McpStart
    \/ McpLoad
    \/ McpObsidian
    \/ McpMemory
    \/ McpExa
    \/ McpFinish

SpecMcp == InitMcp /\ [][NextMcp]_vars

\* the connectors that exist, in the order of the three blocks
EnabledConnectors ==
    (IF mcpCfg.obsidian THEN <<"obsidian">> ELSE <<>>)
        \o (IF mcpCfg.memory THEN <<"memory">> ELSE <<>>)
        \o (IF mcpCfg.exa THEN <<"exa">> ELSE <<>>)

\* C26: the returned success is False exactly when the result file could not
\* be loaded, or the Obsidian or the Memory connector was invoked and
\* reported failure or raised; what the Exa connector did has no part in it.
C26_SuccessValue ==
    mcp_pc = "returned" =>
        (results.success = FALSE <=>
            \/ ~FileLoads
            \/ outcomes.obsidian \in {"fail", "raise"}
            \/ outcomes.memory \in {"fail", "raise"})

C26_Witness ==
    /\ mcp_pc = "returned"
    /\ results.success
    /\ outcomes.obsidian = "ok"
    /\ outcomes.memory = "ok"
    /\ outcomes.exa = "raise"
    /\ results.exa = "error"

\* C27 (as claimed): when the result file loads, every enabled connector has
\* been invoked exactly once, in the order Obsidian, Memory, Exa, when the
\* function returns, and a disabled connector was never invoked and its
\* entry is None.
C27_EveryEnabledConnectorInvoked ==
    (mcp_pc = "returned" /\ FileLoads) =>
        /\ calls = EnabledConnectors
        /\ ~mcpCfg.obsidian => results.obsidian = "None"
        /\ ~mcpCfg.memory => results.memory = "None"
        /\ ~mcpCfg.exa => results.exa = "None"

\* C28: when the result file cannot be loaded the function returns from the
\* load step with success False and an error entry, no connector invoked
\* and the three entries None.
C28_LoadFailureReturnsAtOnce ==
    /\ (~FileLoads /\ mcp_pc \notin {"idle", "load"}) =>
            /\ mcp_pc = "returned"
            /\ results = [NoResults EXCEPT !.success = FALSE, !.error = TRUE]
            /\ calls = <<>>
            /\ outcomes = NoOutcomes
    /\ results.error => ~FileLoads

C28_Witness ==
    /\ mcpCfg.file = "invalid"
    /\ mcpCfg.obsidian /\ mcpCfg.memory /\ mcpCfg.exa
    /\ mcp_pc = "returned"
    /\ results.success = FALSE
    /\ results.error
    /\ calls = <<>>

(***************************************************************************)
(* ExaConnector's cache (exa_connector.py): _save_cache, _check_cache and  *)
(* clear_cache called in any order on one cache directory, with time       *)
(* passing in between.                                                     *)
(***************************************************************************)
InitExa ==
    /\ args \in {a \in RefusedProfiles : a.gen = "stream" /\ a.protocol = "sctp"
                                          /\ a.required /\ ~a.root}
    /\ NotStarted
    /\ McpIdle
    /\ exaCfg \in [cache_results : BOOLEAN, cache_duration : {0, CacheDuration}]
    /\ cache = [f \in Files |-> NoEntry]
    /\ exaNow = 0
    /\ saves = 0
    /\ lastOp = NoOp

\* the file json.dump leaves behind: the whole document, or a part of it
\* when the data cannot be serialised
Written(k, d) ==
    IF Serialisable(d)
    THEN [st |-> "valid", key |-> k, data |-> JsonRoundTrip(d), at |-> exaNow]
    ELSE [NoEntry EXCEPT !.st = "corrupt"]

\* _save_cache(cache_key, data)
SaveCache ==
    /\ saves < MaxSaves
    /\ \E k \in Keys, d \in Data :
        /\ cache' = IF exaCfg.cache_results
                     THEN [cache EXCEPT ![SafeKey(k)] = Written(k, d)]
                     ELSE cache
        /\ lastOp' = [NoOp EXCEPT !.op = "save", !.key = k, !.data = d]
    /\ saves' = saves + 1
    /\ UNCHANGED <<sessionVars, mcpVars, exaCfg, exaNow>>

\* the cached document is young enough
Fresh(e) == exaNow - e.at < exaCfg.cache_duration

\* _check_cache(cache_key) returns cached.get("data") or None
CheckCache ==
    /\ \E k \in Keys :
        LET e == cache[SafeKey(k)]
            hit == exaCfg.cache_results /\ e.st = "valid" /\ Fresh(e)
        IN  lastOp' = [op |-> "check", key |-> k, hit |-> hit,
                       data |-> IF hit THEN e.data ELSE NoData,
                       from |-> IF hit THEN e.key ELSE <<>>]
    /\ UNCHANGED <<sessionVars, mcpVars, exaCfg, cache, exaNow, saves>>

\* clear_cache(cache_key): "if cache_key:" is false for None and for ""
ClearCache ==
    /\ \E k \in Keys \cup {NoKey} :
        /\ cache' = IF k # NoKey /\ k # <<>>
                     THEN [cache EXCEPT ![SafeKey(k)] = NoEntry]
                     ELSE [f \in Files |-> NoEntry]
        /\ lastOp' = [NoOp EXCEPT !.op = "clear", !.key = k]
    /\ UNCHANGED <<sessionVars, mcpVars, exaCfg, exaNow, saves>>

\* time passes
ExaTick ==
    /\ exaNow < MaxExaTime
    /\ exaNow' = exaNow + 1
    /\ UNCHANGED <<sessionVars, mcpVars, exaCfg, cache, saves, lastOp>>

NextExa ==
    \/ SaveCache
    \/ CheckCache
    \/ ClearCache
    \/ ExaTick

SpecExa == InitExa /\ [][NextExa]_vars

\* C29 (as claimed): a lookup never returns data that was saved under a
\* cache key other than the one looked up.
C29_LookupReturnsOwnData ==
    (lastOp.op = "check" /\ lastOp.hit) => lastOp.from = lastOp.key

\* C30 (as claimed): clear_cache(k) with a key leaves the cached entry of
\* every other cache key as it was.
C30_ClearLeavesOtherKeys ==
    [][(lastOp'.op = "clear" /\ lastOp'.key \notin {NoKey, <<>>}) =>
        \A f \in Files :
            (cache[f].st = "valid" /\ cache[f].key # lastOp'.key) =>
                cache'[f] = cache[f]]_vars


=============================================================================
